---- MODULE Spec2Model ----
(***************************************************************************)
(* Model of sqlmap_bulk_host.py: main() and process_bulk_scan(), the       *)
(* per-target loop with its temporary request file, the scan subprocess,   *)
(* the classification of the captured output, the two cleanup passes and   *)
(* the handling of KeyboardInterrupt; replace_host_in_request() and        *)
(* analyze_sqlmap_output() on their own, applied to bounded inputs.        *)
(*                                                                         *)
(* Text is a sequence of one-character strings.  A file on disk is named   *)
(* by a number: the n-th NamedTemporaryFile created in the run has name n. *)
(* A child process is named by the number of the run_sqlmap call that      *)
(* started it.                                                             *)
(***************************************************************************)
EXTENDS Integers, Sequences, FiniteSets, TLC

VARIABLES
    pc,                 \* position in main() / process_bulk_scan()
    fs,                 \* state of the three paths given on the command line
    bulk,               \* lines of the bulk file
    targets,            \* process_bulk_scan: targets
    i,                  \* process_bulk_scan: loop counter of enumerate(targets, 1)
    stats,              \* process_bulk_scan: stats
    successful_targets, \* process_bulk_scan: successful_targets
    temp_files,         \* process_bulk_scan: temp_files
    temp_file,          \* process_bulk_scan: temp_file (0: unbound)
    temp_path,          \* process_bulk_scan: temp_path (0: unbound)
    j,                  \* process_bulk_scan: cursor of the batch-end cleanup loop
    process,            \* run_sqlmap: process (0: unbound)
    output,             \* run_sqlmap: captured output of the current call
    result,             \* process_bulk_scan: result.returncode (-1: unbound)
    analysis,           \* process_bulk_scan: analysis
    pending,            \* exception in flight while a finally clause runs
    disk,               \* temporary request files that exist on disk
    procs,              \* child processes that are running
    summary,            \* main: the summary printed (<<>>: not printed)
    resultFile,         \* lines of result.txt
    exitCode,           \* process exit code (-1: still running)
    interrupts,         \* number of KeyboardInterrupts delivered so far
    hist,               \* history of the run (observation only)
    tpl,                \* the request template as given: its lines and line terminator
    request_content,    \* replace_host_in_request: request_content
    new_host,           \* replace_host_in_request: new_host
    modified            \* replace_host_in_request: modified / returned text

vars == <<pc, fs, bulk, targets, i, stats, successful_targets, temp_files,
          temp_file, temp_path, j, process, output, result, analysis, pending, disk,
          procs, summary, resultFile, exitCode, interrupts, hist,
          tpl, request_content, new_host, modified>>

\* the variables of replace_host_in_request
rewriter == <<tpl, request_content, new_host, modified>>

(***************************************************************************)
(* Bounds                                                                  *)
(***************************************************************************)
MaxLines == 2        \* lines in the bulk file
MaxInterrupts == 2   \* KeyboardInterrupts delivered in one run

(***************************************************************************)
(* Text helpers                                                            *)
(***************************************************************************)
IsSpace(c) == c \in {" ", "\t", "\n", "\r", "\f"}

RECURSIVE lstrip(_)
lstrip(s) == IF s # <<>> /\ IsSpace(Head(s)) THEN lstrip(Tail(s)) ELSE s

RECURSIVE rstrip(_)
rstrip(s) ==
    IF s # <<>> /\ IsSpace(s[Len(s)]) THEN rstrip(SubSeq(s, 1, Len(s) - 1)) ELSE s

\* str.strip()
strip(s) == rstrip(lstrip(s))

\* variant: the format check accepts every target
HasColonAny(t) == TRUE

\* ':' in target
HasColon(t) == \E p \in 1..Len(t) : t[p] = ":"

\* read_bulk_file: the stripped lines that are neither empty nor comments
RECURSIVE read_bulk_file(_)
read_bulk_file(lines) ==
    IF lines = <<>> THEN <<>>
    ELSE LET line == strip(Head(lines))
         IN  IF line # <<>> /\ Head(line) # "#"
             THEN <<line>> \o read_bulk_file(Tail(lines))
             ELSE read_bulk_file(Tail(lines))

(***************************************************************************)
(* analyze_sqlmap_output.  The output is a sequence of lines; a line is a  *)
(* string of the catalogue below and LineMatches gives the regular         *)
(* expressions of the source that re.search finds in it after lower().     *)
(***************************************************************************)
None == "None"

injection_indicators ==
    << "parameter.*is.*injectable",
       "is vulnerable",
       "payload:.*sql",
       "back-end dbms:.*\\(injectable\\)" >>

db_patterns ==
    << [db_type |-> "mysql",
        patterns |-> << "back-end dbms:\\s*mysql",
                        "database management system:\\s*mysql",
                        "the back-end dbms is mysql" >>],
       [db_type |-> "postgresql",
        patterns |-> << "back-end dbms:\\s*postgresql",
                        "database management system:\\s*postgresql",
                        "the back-end dbms is postgresql" >>],
       [db_type |-> "mssql",
        patterns |-> << "back-end dbms:\\s*microsoft sql server",
                        "back-end dbms:\\s*mssql",
                        "database management system:\\s*microsoft sql server",
                        "the back-end dbms is microsoft sql server" >>],
       [db_type |-> "oracle",
        patterns |-> << "back-end dbms:\\s*oracle",
                        "database management system:\\s*oracle",
                        "the back-end dbms is oracle" >>],
       [db_type |-> "sqlite",
        patterns |-> << "back-end dbms:\\s*sqlite",
                        "database management system:\\s*sqlite",
                        "the back-end dbms is sqlite" >>],
       [db_type |-> "access",
        patterns |-> << "back-end dbms:\\s*microsoft access",
                        "database management system:\\s*microsoft access",
                        "the back-end dbms is microsoft access" >>] >>

version_patterns ==
    << "the back-end dbms version is\\s*([\\d.]+)",
       "dbms version:\\s*([\\d.]+)",
       "version:\\s*([\\d.]+)" >>

\* The patterns found in one line of output, with the text of group 1 for
\* the version patterns.
LineMatches(line) ==
    CASE line = "testing for SQL injection on GET parameter 'id'" -> {}
      [] line = "GET parameter 'id' is injectable" ->
            {[p |-> "parameter.*is.*injectable", g |-> None]}
      [] line = "the target is vulnerable" ->
            {[p |-> "is vulnerable", g |-> None]}
      [] line = "the back-end DBMS is MySQL" ->
            {[p |-> "the back-end dbms is mysql", g |-> None]}
      [] line = "back-end DBMS: PostgreSQL" ->
            {[p |-> "back-end dbms:\\s*postgresql", g |-> None]}
      [] line = "back-end DBMS: Microsoft SQL Server" ->
            {[p |-> "back-end dbms:\\s*microsoft sql server", g |-> None]}
      [] line = "database management system: SQLite" ->
            {[p |-> "database management system:\\s*sqlite", g |-> None]}
      [] line = "back-end DBMS: MySQL (injectable)" ->
            {[p |-> "back-end dbms:\\s*mysql", g |-> None],
             [p |-> "back-end dbms:.*\\(injectable\\)", g |-> None]}
      [] line = "the back-end DBMS version is 5.7" ->
            {[p |-> "the back-end dbms version is\\s*([\\d.]+)", g |-> "5.7"]}
      [] line = "DBMS version: 8.0" ->
            {[p |-> "dbms version:\\s*([\\d.]+)", g |-> "8.0"],
             [p |-> "version:\\s*([\\d.]+)", g |-> "8.0"]}
      [] line = "banner version: 1.2" ->
            {[p |-> "version:\\s*([\\d.]+)", g |-> "1.2"]}
      [] OTHER -> {}

\* re.search(pattern, output_lower): '.' does not cross a line end, so a
\* pattern is found in the output iff it is found in one of its lines.
search(pattern, out) ==
    \E n \in 1..Len(out) : \E m \in LineMatches(out[n]) : m.p = pattern

\* vmatch.group(1) of the leftmost match of a version pattern
group1(pattern, out) ==
    LET n == CHOOSE n \in 1..Len(out) :
                 /\ \E m \in LineMatches(out[n]) : m.p = pattern
                 /\ \A k \in 1..(n - 1) : \A m \in LineMatches(out[k]) : m.p # pattern
    IN  (CHOOSE m \in LineMatches(out[n]) : m.p = pattern).g

\* for vpattern in version_patterns: first one that matches wins
RECURSIVE extract_version(_, _)
extract_version(vps, out) ==
    IF vps = <<>> THEN None
    ELSE IF search(Head(vps), out) THEN group1(Head(vps), out)
         ELSE extract_version(Tail(vps), out)

\* variant: the last type that matches wins
RECURSIVE match_db_last(_, _)
match_db_last(dbs, out) ==
    IF dbs = <<>> THEN None
    ELSE IF match_db_last(Tail(dbs), out) # None THEN match_db_last(Tail(dbs), out)
    ELSE IF \E n \in 1..Len(Head(dbs).patterns) : search(Head(dbs).patterns[n], out)
         THEN Head(dbs).db_type
         ELSE None

\* for db_type, patterns in db_patterns.items(): first type that matches wins
RECURSIVE match_db(_, _)
match_db(dbs, out) ==
    IF dbs = <<>> THEN None
    ELSE IF \E n \in 1..Len(Head(dbs).patterns) : search(Head(dbs).patterns[n], out)
         THEN Head(dbs).db_type
         ELSE match_db(Tail(dbs), out)

\* result = {'injection_detected': False, 'db_fingerprint': False,
\*           'db_type': None, 'db_version': None}
NoAnalysis ==
    [injection_detected |-> FALSE, db_fingerprint |-> FALSE,
     db_type |-> None, db_version |-> None]

\* variant: the version is looked for whether or not a type was found
analyze_version_always(out) ==
    LET inj == \E n \in 1..Len(injection_indicators) :
                   search(injection_indicators[n], out)
        db  == match_db(db_patterns, out)
        r   == [NoAnalysis EXCEPT !.injection_detected = inj,
                                  !.db_version = extract_version(version_patterns, out)]
    IN  IF db # None
        THEN [r EXCEPT !.db_fingerprint = TRUE, !.db_type = db]
        ELSE r

\* The three fields of the fingerprint are assigned together, in the branch
\* of the first pattern that matches (lines 193-209).
analyze_sqlmap_output(out) ==
    LET inj == \E n \in 1..Len(injection_indicators) :
                   search(injection_indicators[n], out)
        db  == match_db(db_patterns, out)
        r   == [NoAnalysis EXCEPT !.injection_detected = inj]
    IN  IF db # None
        THEN [r EXCEPT !.db_fingerprint = TRUE,
                       !.db_type = db,
                       !.db_version = extract_version(version_patterns, out)]
        ELSE r

(***************************************************************************)
(* Inputs of a run                                                         *)
(***************************************************************************)
\* lines a bulk file is made of
LinePool ==
    { <<" ">>,                  \* blank after strip
      <<"#", "h">>,             \* comment
      <<"h">>,                  \* no separator
      <<"h", ":", "1">>,
      <<" ", "g", ":", "2">> }

RECURSIVE SeqsUpTo(_, _)
SeqsUpTo(S, n) ==
    IF n = 0 THEN {<<>>}
    ELSE LET shorter == SeqsUpTo(S, n - 1)
         IN  shorter \cup {Append(s, x) : s \in {t \in shorter : Len(t) = n - 1}, x \in S}

\* what the scanning executable can print
Outputs ==
    << <<"testing for SQL injection on GET parameter 'id'">>,
       <<"testing for SQL injection on GET parameter 'id'",
         "GET parameter 'id' is injectable">>,
       <<"the back-end DBMS is MySQL", "the back-end DBMS version is 5.7">> >>

\* exit statuses of the scanning executable
ReturnCodes == {0, 1}

\* What the child prints when the interpreter cannot open the script
\* (cmd = [sys.executable, sqlmap_path, ...]), and its exit status.
LaunchDenied == <<"can't open file 'sqlmap.py': [Errno 13] Permission denied">>
LaunchDeniedCode == 2

\* a result file left by an earlier run
PriorResults ==
    { <<>>, << [target |-> <<"o", ":", "9">>, db |-> <<>>, inj |-> ""] >> }

PathStates == {"ok", "missing", "unreadable"}

NoFate == [kind |-> "none", out |-> 0, rc |-> -1]

NoTally == [s |-> 0, f |-> 0, n |-> 0]

Init ==
    /\ pc = "validate_args"
    /\ fs \in [bulkfile : PathStates, request : PathStates, sqlmap : PathStates]
    /\ bulk \in SeqsUpTo(LinePool, MaxLines)
    /\ (fs.bulkfile # "ok" => bulk = <<>>)
    /\ targets = <<>>
    /\ i = 0
    /\ stats = [total |-> 0, successful |-> 0, failed |-> 0]
    /\ successful_targets = <<>>
    /\ temp_files = <<>>
    /\ temp_file = 0
    /\ temp_path = 0
    /\ j = 0
    /\ process = 0
    /\ output = <<>>
    /\ result = -1
    /\ analysis = NoAnalysis
    /\ pending = "none"
    /\ disk = {}
    /\ procs = {}
    /\ summary = <<>>
    /\ resultFile \in PriorResults
    /\ exitCode = -1
    /\ interrupts = 0
    /\ hist = [started |-> {},       \* list positions whose processing began
               fate    |-> <<>>,     \* what the environment did to each started target
               tally   |-> <<>>,     \* per position: change of each counter, number of updates
               created |-> <<>>,     \* position that created temporary file n
               invoked |-> <<>>,     \* position of the n-th run_sqlmap call
               unlinkErrors |-> 0,   \* os.unlink calls that raised
               intAt   |-> 0,        \* position being processed at the first interrupt
               intPc   |-> "",       \* position in the code at the first interrupt
               intPre  |-> FALSE]    \* no outcome of that position was recorded yet
    \* the text of the template plays no part in the control flow of a run
    /\ tpl = [lines |-> <<>>, eol |-> <<>>, trail |-> FALSE]
    /\ request_content = <<>>
    /\ new_host = <<>>
    /\ modified = <<>>

(***************************************************************************)
(* Fragments of process_bulk_scan and main                                 *)
(***************************************************************************)
\* variant: the failure is reported but not counted
CountFailedNoop(s) == s

\* stats['failed'] += 1
CountFailed(s) == [s EXCEPT !.failed = @ + 1]

\* stats['successful'] += 1
CountSuccessful(s) == [s EXCEPT !.successful = @ + 1]

\* is_successful = analysis['injection_detected'] or analysis['db_fingerprint']
is_successful(a) == a.injection_detected \/ a.db_fingerprint

\* target_info
target_info(t, a) ==
    [target |-> t, injection_detected |-> a.injection_detected,
     db_type |-> a.db_type, db_version |-> a.db_version]

\* main: the line written to result.txt for one record
FormatLine(info) ==
    [target |-> info.target,
     db     |-> IF info.db_type # None
                THEN <<"DB", info.db_type>> \o
                     (IF info.db_version # None THEN <<info.db_version>> ELSE <<>>)
                ELSE <<>>,
     inj    |-> IF info.injection_detected THEN "SQL Injection: Yes" ELSE ""]

\* sys.exit(0 if stats['failed'] == 0 else 1)
ExitStatus(s) == IF s.failed = 0 THEN 0 ELSE 1

\* os.path.exists(path)
exists(d, f) == f \in d

\* os.unlink(path): raises FileNotFoundError if the file is gone; deleting a
\* file that exists is taken to succeed
unlink(d, f) == [disk |-> d \ {f}, raised |-> f \notin d]

\* if os.path.exists(temp_path): os.unlink(temp_path)
CleanupFile(d, f) ==
    IF exists(d, f) THEN unlink(d, f) ELSE [disk |-> d, raised |-> FALSE]

NoteUnlink(h, c) == IF c.raised THEN [h EXCEPT !.unlinkErrors = @ + 1] ELSE h

\* positions inside "try: result, analysis = run_sqlmap(...) ..." (347-376)
InnerTry == {"popen", "read_output", "wait", "classify", "append_success"}

\* positions inside the except clauses of that try (377-382)
InnerHandlers == {"except_exc", "except_kbd"}

\* positions of the loop body outside that try statement (305-344)
LoopBody == {"loop", "check_format", "replace_host", "create_temp", "write_temp"}

\* positions at which a target is being processed
LoopRegion == LoopBody \cup InnerTry \cup InnerHandlers \cup {"finally_inner"}

\* variant: the try around run_sqlmap handles the interrupt like any other
\* error of the scan ("except BaseException" in place of "except Exception")
HandlerBroad(p) ==
    CASE p \in InnerTry        -> [pc |-> "except_exc",    pending |-> "none"]
      [] p \in InnerHandlers   -> [pc |-> "finally_inner", pending |-> "KeyboardInterrupt"]
      [] p = "finally_inner"   -> [pc |-> "except_outer",  pending |-> "none"]
      [] p \in LoopBody        -> [pc |-> "except_outer",  pending |-> "none"]
      [] p = "except_outer"    -> [pc |-> "finally_outer", pending |-> "KeyboardInterrupt"]
      [] OTHER                 -> [pc |-> "main_except",   pending |-> "none"]

\* Where a KeyboardInterrupt raised at position p goes: the position that
\* runs next and the exception left in flight.
Handler(p) ==
    CASE p \in InnerTry        -> [pc |-> "except_kbd",    pending |-> "none"]
      [] p \in InnerHandlers   -> [pc |-> "finally_inner", pending |-> "KeyboardInterrupt"]
      [] p = "finally_inner"   -> [pc |-> "except_outer",  pending |-> "none"]
      [] p \in LoopBody        -> [pc |-> "except_outer",  pending |-> "none"]
      [] p = "except_outer"    -> [pc |-> "finally_outer", pending |-> "KeyboardInterrupt"]
      [] OTHER                 -> [pc |-> "main_except",   pending |-> "none"]

\* history helpers
SetFate(h, k, f) == [h EXCEPT !.fate[k] = f]
Tally(h, k, s, t) ==
    [h EXCEPT !.tally[k] = [s |-> @.s + (t.successful - s.successful),
                            f |-> @.f + (t.failed - s.failed),
                            n |-> @.n + (IF s = t THEN 0 ELSE 1)]]

(***************************************************************************)
(* main, before the loop                                                   *)
(***************************************************************************)
\* validate_args; a ValueError reaches "except Exception" of main
ValidateArgs ==
    /\ pc = "validate_args"
    /\ IF fs.bulkfile = "missing" \/ fs.request = "missing" \/ fs.sqlmap = "missing"
       THEN pc' = "done" /\ exitCode' = 1
       ELSE pc' = "read_bulk" /\ UNCHANGED exitCode
    /\ UNCHANGED <<fs, bulk, targets, i, stats, successful_targets, temp_files,
                   temp_file, temp_path, j, process, output, result, analysis,
                   pending, disk, procs, summary, resultFile, interrupts, hist>>
    /\ UNCHANGED rewriter

\* targets = read_bulk_file(bulk_file); if not targets: return
\* The dictionary returned for an empty list has no 'successful_targets'
\* key; main treats a missing key like an empty list.
ReadBulk ==
    /\ pc = "read_bulk"
    /\ IF fs.bulkfile = "unreadable"
       THEN pc' = "done" /\ exitCode' = 1 /\ UNCHANGED <<targets, stats>>
       ELSE /\ targets' = read_bulk_file(bulk)
            /\ UNCHANGED exitCode
            /\ IF targets' = <<>>
               THEN /\ stats' = [total |-> 0, successful |-> 0, failed |-> 0]
                    /\ pc' = "summary"
               ELSE pc' = "read_template" /\ UNCHANGED stats
    /\ UNCHANGED <<fs, bulk, i, successful_targets, temp_files, temp_file,
                   temp_path, j, process, output, result, analysis, pending,
                   disk, procs, summary, resultFile, interrupts, hist>>
    /\ UNCHANGED rewriter

\* template = read_request_file(request_template); stats = {...}
ReadTemplate ==
    /\ pc = "read_template"
    /\ IF fs.request = "unreadable"
       THEN pc' = "done" /\ exitCode' = 1 /\ UNCHANGED stats
       ELSE /\ stats' = [total |-> Len(targets), successful |-> 0, failed |-> 0]
            /\ pc' = "loop"
            /\ UNCHANGED exitCode
    /\ successful_targets' = <<>>
    /\ temp_files' = <<>>
    /\ UNCHANGED <<fs, bulk, targets, i, temp_file, temp_path, j, process,
                   output, result, analysis, pending, disk, procs, summary,
                   resultFile, interrupts, hist>>
    /\ UNCHANGED rewriter

(***************************************************************************)
(* The loop over the targets                                               *)
(***************************************************************************)
\* for i, target in enumerate(targets, 1)
Loop ==
    /\ pc = "loop"
    /\ IF i < Len(targets)
       THEN /\ i' = i + 1
            /\ pc' = "check_format"
            /\ hist' = [hist EXCEPT !.started = @ \cup {i + 1},
                                    !.fate = Append(@, NoFate),
                                    !.tally = Append(@, NoTally)]
            /\ UNCHANGED j
       ELSE /\ pc' = "finally_outer"
            /\ j' = 0
            /\ UNCHANGED <<i, hist>>
    /\ UNCHANGED <<fs, bulk, targets, stats, successful_targets, temp_files,
                   temp_file, temp_path, process, output, result, analysis,
                   pending, disk, procs, summary, resultFile, exitCode, interrupts>>
    /\ UNCHANGED rewriter

\* if ':' not in target: stats['failed'] += 1; continue
CheckFormat ==
    /\ pc = "check_format"
    /\ IF ~HasColon(targets[i])
       THEN /\ stats' = CountFailed(stats)
            /\ hist' = Tally(hist, i, stats, stats')
            /\ pc' = "loop"
       ELSE /\ pc' = "replace_host"
            /\ UNCHANGED <<stats, hist>>
    /\ UNCHANGED <<fs, bulk, targets, i, successful_targets, temp_files,
                   temp_file, temp_path, j, process, output, result, analysis,
                   pending, disk, procs, summary, resultFile, exitCode, interrupts>>
    /\ UNCHANGED rewriter

\* modified_request = replace_host_in_request(template, target), under
\* "except Exception": the handler is reached only if the call raises
\* (for text arguments that is MemoryError only)
ReplaceHost ==
    /\ pc = "replace_host"
    /\ \E raised \in BOOLEAN :
         IF raised
         THEN /\ stats' = CountFailed(stats)
              /\ hist' = Tally(SetFate(hist, i, [NoFate EXCEPT !.kind = "rewrite_exc"]),
                                 i, stats, stats')
              /\ pc' = "loop"
         ELSE /\ pc' = "create_temp"
              /\ UNCHANGED <<stats, hist>>
    /\ UNCHANGED <<fs, bulk, targets, i, successful_targets, temp_files,
                   temp_file, temp_path, j, process, output, result, analysis,
                   pending, disk, procs, summary, resultFile, exitCode, interrupts>>
    /\ UNCHANGED rewriter

\* temp_file = tempfile.NamedTemporaryFile(delete=False, ...)
CreateTemp ==
    /\ pc = "create_temp"
    /\ \E raised \in BOOLEAN :
         IF raised
         THEN /\ stats' = CountFailed(stats)
              /\ hist' = Tally(SetFate(hist, i, [NoFate EXCEPT !.kind = "create_exc"]),
                                 i, stats, stats')
              /\ pc' = "loop"
              /\ UNCHANGED <<temp_file, disk>>
         ELSE /\ temp_file' = Len(hist.created) + 1
              /\ disk' = disk \cup {temp_file'}
              /\ hist' = [hist EXCEPT !.created = Append(@, i)]
              /\ pc' = "write_temp"
              /\ UNCHANGED stats
    /\ UNCHANGED <<fs, bulk, targets, i, successful_targets, temp_files,
                   temp_path, j, process, output, result, analysis, pending,
                   procs, summary, resultFile, exitCode, interrupts>>
    /\ UNCHANGED rewriter

\* temp_file.write(...); temp_file.close(); temp_path = temp_file.name;
\* temp_files.append(temp_path)
WriteTemp ==
    /\ pc = "write_temp"
    /\ \E raised \in BOOLEAN :
         IF raised
         THEN /\ stats' = CountFailed(stats)
              /\ hist' = Tally(SetFate(hist, i, [NoFate EXCEPT !.kind = "write_exc"]),
                                 i, stats, stats')
              /\ pc' = "loop"
              /\ UNCHANGED <<temp_path, temp_files>>
         ELSE /\ temp_path' = temp_file
              /\ temp_files' = Append(temp_files, temp_file)
              /\ pc' = "popen"
              /\ UNCHANGED <<stats, hist>>
    /\ UNCHANGED <<fs, bulk, targets, i, successful_targets, temp_file, j,
                   process, output, result, analysis, pending, disk, procs,
                   summary, resultFile, exitCode, interrupts>>
    /\ UNCHANGED rewriter

(***************************************************************************)
(* run_sqlmap and the recording of its outcome                             *)
(***************************************************************************)
\* run_sqlmap is called; process = subprocess.Popen(cmd, ...)
Popen ==
    /\ pc = "popen"
    /\ \E raised \in BOOLEAN :
         IF raised
         THEN /\ hist' = [SetFate(hist, i, [NoFate EXCEPT !.kind = "launch_exc"])
                             EXCEPT !.invoked = Append(@, i)]
              /\ pc' = "except_exc"
              /\ UNCHANGED <<process, procs>>
         ELSE /\ process' = Len(hist.invoked) + 1
              /\ procs' = procs \cup {process'}
              /\ hist' = [hist EXCEPT !.invoked = Append(@, i)]
              /\ pc' = "read_output"
    /\ UNCHANGED <<fs, bulk, targets, i, stats, successful_targets, temp_files,
                   temp_file, temp_path, j, output, result, analysis, pending,
                   disk, summary, resultFile, exitCode, interrupts>>
    /\ UNCHANGED rewriter

\* for line in process.stdout: print(line); output_lines.append(line)
\* Decoding or printing a line can raise; the child is then left running.
\* validate_args only asks whether the script exists: a script that cannot
\* be read is launched like any other and the interpreter reports the error.
ReadOutput ==
    /\ pc = "read_output"
    /\ \/ /\ hist' = SetFate(hist, i, [NoFate EXCEPT !.kind = "exec_exc"])
          /\ pc' = "except_exc"
          /\ UNCHANGED output
       \/ /\ fs.sqlmap = "unreadable"
          /\ output' = LaunchDenied
          /\ hist' = SetFate(hist, i, NoFate)
          /\ pc' = "wait"
       \/ /\ fs.sqlmap = "ok"
          /\ \E o \in 1..Len(Outputs) :
               /\ output' = Outputs[o]
               /\ hist' = SetFate(hist, i, [NoFate EXCEPT !.out = o])
               /\ pc' = "wait"
    /\ UNCHANGED <<fs, bulk, targets, i, stats, successful_targets, temp_files,
                   temp_file, temp_path, j, process, result, analysis, pending,
                   disk, procs, summary, resultFile, exitCode, interrupts>>
    /\ UNCHANGED rewriter

\* returncode = process.wait(); analysis = analyze_sqlmap_output(output);
\* return result, analysis
Wait ==
    /\ pc = "wait"
    /\ \E rc \in IF fs.sqlmap = "unreadable" THEN {LaunchDeniedCode} ELSE ReturnCodes :
         /\ result' = rc
         /\ hist' = SetFate(hist, i, [hist.fate[i] EXCEPT !.kind = "scan", !.rc = rc])
    /\ procs' = procs \ {process}
    /\ analysis' = analyze_sqlmap_output(output)
    /\ pc' = "classify"
    /\ UNCHANGED <<fs, bulk, targets, i, stats, successful_targets, temp_files,
                   temp_file, temp_path, j, process, output, pending, disk,
                   summary, resultFile, exitCode, interrupts>>
    /\ UNCHANGED rewriter

\* variant: success decided by the exit status of the scan
ClassifyByExitCode ==
    /\ pc = "classify"
    /\ IF result = 0
       THEN /\ stats' = CountSuccessful(stats)
            /\ hist' = Tally(hist, i, stats, stats')
            /\ pc' = "append_success"
       ELSE /\ stats' = CountFailed(stats)
            /\ hist' = Tally(hist, i, stats, stats')
            /\ pc' = "finally_inner"
    /\ UNCHANGED <<fs, bulk, targets, i, successful_targets, temp_files,
                   temp_file, temp_path, j, process, output, result, analysis,
                   pending, disk, procs, summary, resultFile, exitCode, interrupts>>
    /\ UNCHANGED rewriter

\* if is_successful: stats['successful'] += 1 ... else: stats['failed'] += 1
Classify ==
    /\ pc = "classify"
    /\ IF is_successful(analysis)
       THEN /\ stats' = CountSuccessful(stats)
            /\ hist' = Tally(hist, i, stats, stats')
            /\ pc' = "append_success"
       ELSE /\ stats' = CountFailed(stats)
            /\ hist' = Tally(hist, i, stats, stats')
            /\ pc' = "finally_inner"
    /\ UNCHANGED <<fs, bulk, targets, i, successful_targets, temp_files,
                   temp_file, temp_path, j, process, output, result, analysis,
                   pending, disk, procs, summary, resultFile, exitCode, interrupts>>
    /\ UNCHANGED rewriter

\* variant: the record is put at the head of the list
AppendSuccessFront ==
    /\ pc = "append_success"
    /\ successful_targets' = <<target_info(targets[i], analysis)>> \o successful_targets
    /\ pc' = "finally_inner"
    /\ UNCHANGED <<fs, bulk, targets, i, stats, temp_files, temp_file, temp_path,
                   j, process, output, result, analysis, pending, disk, procs,
                   summary, resultFile, exitCode, interrupts, hist>>
    /\ UNCHANGED rewriter

\* successful_targets.append(target_info)
AppendSuccess ==
    /\ pc = "append_success"
    /\ successful_targets' = Append(successful_targets, target_info(targets[i], analysis))
    /\ pc' = "finally_inner"
    /\ UNCHANGED <<fs, bulk, targets, i, stats, temp_files, temp_file, temp_path,
                   j, process, output, result, analysis, pending, disk, procs,
                   summary, resultFile, exitCode, interrupts, hist>>
    /\ UNCHANGED rewriter

\* variant: the handler prints the error and does not count it
ExceptExcSilent ==
    /\ pc = "except_exc"
    /\ pc' = "finally_inner"
    /\ UNCHANGED <<fs, bulk, targets, i, stats, successful_targets, temp_files,
                   temp_file, temp_path, j, process, output, result, analysis,
                   pending, disk, procs, summary, resultFile, exitCode,
                   interrupts, hist>>
    /\ UNCHANGED rewriter

\* except Exception as e: stats['failed'] += 1
ExceptExc ==
    /\ pc = "except_exc"
    /\ stats' = CountFailed(stats)
    /\ hist' = Tally(hist, i, stats, stats')
    /\ pc' = "finally_inner"
    /\ UNCHANGED <<fs, bulk, targets, i, successful_targets, temp_files,
                   temp_file, temp_path, j, process, output, result, analysis,
                   pending, disk, procs, summary, resultFile, exitCode, interrupts>>
    /\ UNCHANGED rewriter

\* except KeyboardInterrupt: print(...); raise
ExceptKbd ==
    /\ pc = "except_kbd"
    /\ pending' = "KeyboardInterrupt"
    /\ pc' = "finally_inner"
    /\ UNCHANGED <<fs, bulk, targets, i, stats, successful_targets, temp_files,
                   temp_file, temp_path, j, process, output, result, analysis,
                   disk, procs, summary, resultFile, exitCode, interrupts, hist>>
    /\ UNCHANGED rewriter

(***************************************************************************)
(* The two cleanup passes                                                  *)
(***************************************************************************)
\* finally: if os.path.exists(temp_path): os.unlink(temp_path)
\* then the exception in flight, if any, reaches the outer try
FinallyInner ==
    /\ pc = "finally_inner"
    /\ disk' = CleanupFile(disk, temp_path).disk
    /\ hist' = NoteUnlink(hist, CleanupFile(disk, temp_path))
    /\ pc' = IF pending = "KeyboardInterrupt" THEN "except_outer" ELSE "loop"
    /\ pending' = "none"
    /\ UNCHANGED <<fs, bulk, targets, i, stats, successful_targets, temp_files,
                   temp_file, temp_path, j, process, output, result, analysis,
                   procs, summary, resultFile, exitCode, interrupts>>
    /\ UNCHANGED rewriter

\* variant: the outer handler re-raises after printing
ExceptOuterReraise ==
    /\ pc = "except_outer"
    /\ pc' = "finally_outer"
    /\ j' = 0
    /\ pending' = "KeyboardInterrupt"
    /\ UNCHANGED <<fs, bulk, targets, i, stats, successful_targets, temp_files,
                   temp_file, temp_path, process, output, result, analysis,
                   disk, procs, summary, resultFile, exitCode, interrupts, hist>>
    /\ UNCHANGED rewriter

\* except KeyboardInterrupt: print("Interrupted by user. Cleaning up...")
ExceptOuter ==
    /\ pc = "except_outer"
    /\ pc' = "finally_outer"
    /\ j' = 0
    /\ UNCHANGED <<fs, bulk, targets, i, stats, successful_targets, temp_files,
                   temp_file, temp_path, process, output, result, analysis,
                   pending, disk, procs, summary, resultFile, exitCode,
                   interrupts, hist>>
    /\ UNCHANGED rewriter

\* finally: for temp_path in temp_files: if exists: unlink
\* After the last file: an exception in flight reaches main, otherwise
\* stats['successful_targets'] = successful_targets; return stats
FinallyOuter ==
    /\ pc = "finally_outer"
    /\ IF j < Len(temp_files)
       THEN /\ j' = j + 1
            /\ temp_path' = temp_files[j + 1]
            /\ disk' = CleanupFile(disk, temp_files[j + 1]).disk
            /\ hist' = NoteUnlink(hist, CleanupFile(disk, temp_files[j + 1]))
            /\ UNCHANGED <<pc, pending, exitCode>>
       ELSE /\ IF pending = "KeyboardInterrupt"
               THEN pc' = "done" /\ exitCode' = 130
               ELSE pc' = "summary" /\ UNCHANGED exitCode
            /\ pending' = "none"
            /\ UNCHANGED <<j, temp_path, disk, hist>>
    /\ UNCHANGED <<fs, bulk, targets, i, stats, successful_targets, temp_files,
                   temp_file, process, output, result, analysis, procs, summary,
                   resultFile, interrupts>>
    /\ UNCHANGED rewriter

(***************************************************************************)
(* main, after process_bulk_scan                                           *)
(***************************************************************************)
\* print("Scan Summary") ...
Summary ==
    /\ pc = "summary"
    /\ summary' = <<stats.total, stats.successful, stats.failed>>
    /\ pc' = "write_result"
    /\ UNCHANGED <<fs, bulk, targets, i, stats, successful_targets, temp_files,
                   temp_file, temp_path, j, process, output, result, analysis,
                   pending, disk, procs, resultFile, exitCode, interrupts, hist>>
    /\ UNCHANGED rewriter

\* if 'successful_targets' in stats and stats['successful_targets']:
\*     with open('result.txt', 'w') ...
\* Opening and writing result.txt are taken to succeed.  With no successful
\* target the file is not opened.
WriteResult ==
    /\ pc = "write_result"
    /\ resultFile' = IF successful_targets # <<>>
                     THEN [n \in 1..Len(successful_targets) |->
                               FormatLine(successful_targets[n])]
                     ELSE resultFile
    /\ pc' = "exit"
    /\ UNCHANGED <<fs, bulk, targets, i, stats, successful_targets, temp_files,
                   temp_file, temp_path, j, process, output, result, analysis,
                   pending, disk, procs, summary, exitCode, interrupts, hist>>
    /\ UNCHANGED rewriter

\* sys.exit(0 if stats['failed'] == 0 else 1)
Exit ==
    /\ pc = "exit"
    /\ exitCode' = ExitStatus(stats)
    /\ pc' = "done"
    /\ UNCHANGED <<fs, bulk, targets, i, stats, successful_targets, temp_files,
                   temp_file, temp_path, j, process, output, result, analysis,
                   pending, disk, procs, summary, resultFile, interrupts, hist>>
    /\ UNCHANGED rewriter

(***************************************************************************)
(* The environment                                                         *)
(***************************************************************************)
\* The operator interrupts: KeyboardInterrupt is raised at the current
\* position.  In main it reaches "except KeyboardInterrupt: sys.exit(130)".
Interrupt ==
    /\ pc # "done"
    /\ interrupts < MaxInterrupts
    /\ interrupts' = interrupts + 1
    /\ LET h == Handler(pc)
       IN  /\ IF h.pc = "main_except"
              THEN pc' = "done" /\ exitCode' = 130
              ELSE pc' = h.pc /\ UNCHANGED exitCode
           /\ pending' = h.pending
           /\ j' = IF h.pc = "finally_outer" THEN 0 ELSE j
    /\ hist' = IF pc \in LoopRegion /\ i >= 1 /\ hist.intAt = 0
               THEN [hist EXCEPT
                       !.intAt  = i,
                       !.intPc  = pc,
                       !.intPre = pc # "loop" /\ hist.tally[i].n = 0]
               ELSE hist
    /\ UNCHANGED <<fs, bulk, targets, i, stats, successful_targets, temp_files,
                   temp_file, temp_path, process, output, result, analysis,
                   disk, procs, summary, resultFile>>
    /\ UNCHANGED rewriter

\* A child that run_sqlmap no longer waits for ends by itself.
ChildExits ==
    /\ pc # "done"
    /\ \E c \in procs :
         /\ ~(pc \in {"read_output", "wait"} /\ c = process)
         /\ procs' = procs \ {c}
    /\ UNCHANGED <<pc, fs, bulk, targets, i, stats, successful_targets,
                   temp_files, temp_file, temp_path, j, process, output, result,
                   analysis, pending, disk, summary, resultFile, exitCode,
                   interrupts, hist>>
    /\ UNCHANGED rewriter

Next ==
    \/ ValidateArgs
    \/ ReadBulk
    \/ ReadTemplate
    \/ Loop
    \/ CheckFormat
    \/ ReplaceHost
    \/ CreateTemp
    \/ WriteTemp
    \/ Popen
    \/ ReadOutput
    \/ Wait
    \/ Classify
    \/ AppendSuccess
    \/ ExceptExc
    \/ ExceptKbd
    \/ FinallyInner
    \/ ExceptOuter
    \/ FinallyOuter
    \/ Summary
    \/ WriteResult
    \/ Exit
    \/ Interrupt
    \/ ChildExits

Spec == Init /\ [][Next]_vars

(***************************************************************************)
(* replace_host_in_request                                                 *)
(***************************************************************************)
\* lines of the request template
MaxTplLines == 3

LF == <<"\n">>
CRLF == <<"\r", "\n">>

\* '{{Hostname}}'
Placeholder == <<"{", "{", "H", "o", "s", "t", "n", "a", "m", "e", "}", "}">>

\* 'Host: '
HostPrefix == <<"H", "o", "s", "t", ":", " ">>

\* 'HTTP/'
HttpPrefix == <<"H", "T", "T", "P", "/">>

\* s[p:].startswith(w), positions counted from 1
StartsWithAt(s, p, w) ==
    /\ p + Len(w) - 1 <= Len(s)
    /\ \A k \in 1..Len(w) : s[p + k - 1] = w[k]

\* w in s
Contains(s, w) == \E p \in 1..Len(s) : StartsWithAt(s, p, w)

\* variant: only the first occurrence is replaced
RECURSIVE str_replace_first(_, _, _, _)
str_replace_first(s, old, new, p) ==
    IF p > Len(s) THEN <<>>
    ELSE IF StartsWithAt(s, p, old)
         THEN new \o SubSeq(s, p + Len(old), Len(s))
         ELSE <<s[p]>> \o str_replace_first(s, old, new, p + 1)

\* s.replace(old, new), from position p on: the occurrences are taken from
\* left to right and do not overlap
RECURSIVE str_replace(_, _, _, _)
str_replace(s, old, new, p) ==
    IF p > Len(s) THEN <<>>
    ELSE IF StartsWithAt(s, p, old)
         THEN new \o str_replace(s, old, new, p + Len(old))
         ELSE <<s[p]>> \o str_replace(s, old, new, p + 1)

\* (?i): the letters of the label match in either case
lower(c) ==
    CASE c = "H" -> "h" [] c = "O" -> "o" [] c = "S" -> "s" [] c = "T" -> "t"
      [] OTHER -> c

\* '^' under re.MULTILINE: start of the text or just after a newline
AtLineStart(s, p) == p = 1 \/ s[p - 1] = "\n"

\* '(?i)^(Host:' matches at position p
HostLabelAt(s, p) ==
    /\ AtLineStart(s, p)
    /\ p + 4 <= Len(s)
    /\ <<lower(s[p]), lower(s[p + 1]), lower(s[p + 2]), lower(s[p + 3]), s[p + 4]>>
         = <<"h", "o", "s", "t", ":">>

\* '\s*' is greedy and takes every whitespace character, newlines included
RECURSIVE SkipSpace(_, _)
SkipSpace(s, q) == IF q <= Len(s) /\ IsSpace(s[q]) THEN SkipSpace(s, q + 1) ELSE q

\* '.*$': '.' takes every character but the newline, the carriage return
\* included; '$' under re.MULTILINE matches before a newline or at the end
RECURSIVE LineEnd(_, _)
LineEnd(s, r) == IF r <= Len(s) /\ s[r] # "\n" THEN LineEnd(s, r + 1) ELSE r

\* re.sub(r'(?i)^(Host:\s*).*$', repl, s, flags=re.MULTILINE) from position
\* p on, with repl(m) = m.group(1) + new_host: every match is replaced
RECURSIVE re_sub_host(_, _, _)
re_sub_host(s, host, p) ==
    IF p > Len(s) THEN <<>>
    ELSE IF HostLabelAt(s, p)
         THEN LET q == SkipSpace(s, p + 5)
                  r == LineEnd(s, q)
              IN  SubSeq(s, p, q - 1) \o host \o re_sub_host(s, host, r)
         ELSE <<s[p]>> \o re_sub_host(s, host, p + 1)

\* s.split('\n')
RECURSIVE split(_)
split(s) ==
    LET r == LineEnd(s, 1)
    IN  IF r > Len(s) THEN <<s>>
        ELSE <<SubSeq(s, 1, r - 1)>> \o split(SubSeq(s, r + 1, Len(s)))

\* sep.join(ls)
RECURSIVE join(_, _)
join(sep, ls) ==
    IF ls = <<>> THEN <<>>
    ELSE IF Len(ls) = 1 THEN ls[1]
    ELSE ls[1] \o sep \o join(sep, Tail(ls))

\* variant: the scan for the place of the new header starts at the first line
RECURSIVE find_insert_pos_from_first(_, _)
find_insert_pos_from_first(lines, k) ==
    IF k > Len(lines) + 1 THEN 2
    ELSE IF \/ HasColon(lines[k - 1]) /\ ~StartsWithAt(strip(lines[k - 1]), 1, HttpPrefix)
            \/ strip(lines[k - 1]) = <<>>
         THEN k - 1
         ELSE find_insert_pos_from_first(lines, k + 1)

\* insert_pos = 1; for i, line in enumerate(lines[1:], start=1): ...
\* k is the line looked at, counted from 1 (the loop starts at k = 2); the
\* value is the index, counted from 1, the new line gets
RECURSIVE find_insert_pos(_, _)
find_insert_pos(lines, k) ==
    IF k > Len(lines) THEN 2
    ELSE IF \/ HasColon(lines[k]) /\ ~StartsWithAt(strip(lines[k]), 1, HttpPrefix)
            \/ strip(lines[k]) = <<>>
         THEN k
         ELSE find_insert_pos(lines, k + 1)

\* lines.insert(pos - 1, x)
list_insert(lines, pos, x) ==
    SubSeq(lines, 1, pos - 1) \o <<x>> \o SubSeq(lines, pos, Len(lines))

\* the branch taken when no Host header was rewritten (lines 51-64)
insert_host(s, host) ==
    LET lines == split(s)
    IN  join(LF, list_insert(lines, find_insert_pos(lines, 2), HostPrefix \o host))

\* lines a template is made of
TplLinePool ==
    { <<"G", " ", "/", " ", "H", "T", "T", "P", "/", "1">>,   \* 'G / HTTP/1'
      <<"H", "o", "s", "t", ":", " ", "a", ":", "1">>,   \* 'Host: a:1'
      <<"h", "O", "s", "T", ":", "b">>,   \* 'hOsT:b'
      <<"A", ":", " ", "b">>,   \* 'A: b'
      <<>>,   \* ''
      <<"H", "o", "s", "t", ":", " ", "{", "{", "H", "o", "s", "t", "n", "a", "m", "e", "}", "}">>,   \* 'Host: {{Hostname}}'
      <<"u", "=", "{", "{", "H", "o", "s", "t", "n", "a", "m", "e", "}", "}", "{", "{", "H", "o", "s", "t", "n", "a", "m", "e", "}", "}">>,   \* 'u={{Hostname}}{{Hostname}}'
      <<"H", "T", "T", "P", "/", "1", ":", "x">>,   \* 'HTTP/1:x'
      <<"b", "o", "d", "y">>,   \* 'body'
      <<"H", "o", "s", "t", ":">> }   \* 'Host:'

\* a template: its lines, the terminator between them, and whether the last
\* line is terminated too
Templates ==
    [lines : SeqsUpTo(TplLinePool, MaxTplLines), eol : {LF, CRLF}, trail : BOOLEAN]

\* the text of a template
TemplateText(t) == join(t.eol, t.lines) \o (IF t.trail THEN t.eol ELSE <<>>)

\* targets the template is rewritten for
Hosts == { <<"a", ":", "1">>, <<"9", ":", "2">> }

\* the variables of a run other than the position in the code
run == <<fs, bulk, targets, i, stats, successful_targets, temp_files, temp_file,
         temp_path, j, process, output, result, analysis, pending, disk, procs,
         summary, resultFile, exitCode, interrupts, hist>>

\* no run is under way
NoRun ==
    /\ fs = [bulkfile |-> "ok", request |-> "ok", sqlmap |-> "ok"]
    /\ bulk = <<>>
    /\ targets = <<>>
    /\ i = 0
    /\ stats = [total |-> 0, successful |-> 0, failed |-> 0]
    /\ successful_targets = <<>>
    /\ temp_files = <<>>
    /\ temp_file = 0
    /\ temp_path = 0
    /\ j = 0
    /\ process = 0
    /\ output = <<>>
    /\ result = -1
    /\ analysis = NoAnalysis
    /\ pending = "none"
    /\ disk = {}
    /\ procs = {}
    /\ summary = <<>>
    /\ resultFile = <<>>
    /\ exitCode = -1
    /\ interrupts = 0
    /\ hist = [started |-> {}, fate |-> <<>>, tally |-> <<>>, created |-> <<>>,
               invoked |-> <<>>, unlinkErrors |-> 0, intAt |-> 0, intPc |-> "",
               intPre |-> FALSE]

\* replace_host_in_request(request_content, new_host) is called
InitRewrite ==
    /\ pc = "rewrite"
    /\ NoRun
    /\ tpl \in Templates
    /\ request_content = TemplateText(tpl)
    /\ new_host \in Hosts
    /\ modified = <<>>

\* if '{{Hostname}}' in request_content:
\*     modified = request_content.replace('{{Hostname}}', new_host); return modified
ReplacePlaceholder ==
    /\ pc = "rewrite"
    /\ Contains(request_content, Placeholder)
    /\ modified' = str_replace(request_content, Placeholder, new_host, 1)
    /\ pc' = "rewritten"
    /\ UNCHANGED <<tpl, request_content, new_host>>
    /\ UNCHANGED run

\* modified = re.sub(pattern, repl, request_content, flags=re.MULTILINE)
SubHost ==
    /\ pc = "rewrite"
    /\ ~Contains(request_content, Placeholder)
    /\ modified' = re_sub_host(request_content, new_host, 1)
    /\ pc' = "host_found"
    /\ UNCHANGED <<tpl, request_content, new_host>>
    /\ UNCHANGED run

\* if modified == request_content: (insert the header); return modified
InsertHost ==
    /\ pc = "host_found"
    /\ modified' = IF modified = request_content
                   THEN insert_host(request_content, new_host)
                   ELSE modified
    /\ pc' = "rewritten"
    /\ UNCHANGED <<tpl, request_content, new_host>>
    /\ UNCHANGED run

NextRewrite ==
    \/ ReplacePlaceholder
    \/ SubHost
    \/ InsertHost

SpecRewrite == InitRewrite /\ [][NextRewrite]_vars

(***************************************************************************)
(* analyze_sqlmap_output on its own, and the recording of its result       *)
(***************************************************************************)
\* lines of the captured output
MaxOutLines == 3

\* lines the scanning executable can print
OutputLinePool ==
    { "testing for SQL injection on GET parameter 'id'",
      "GET parameter 'id' is injectable",
      "the target is vulnerable",
      "the back-end DBMS is MySQL",
      "back-end DBMS: PostgreSQL",
      "back-end DBMS: Microsoft SQL Server",
      "database management system: SQLite",
      "back-end DBMS: MySQL (injectable)",
      "the back-end DBMS version is 5.7",
      "DBMS version: 8.0",
      "banner version: 1.2" }

\* run_sqlmap has read the output of the scan of the only target and the
\* child has exited
InitAnalyze ==
    /\ pc = "analyze"
    /\ output \in SeqsUpTo(OutputLinePool, MaxOutLines)
    /\ fs = [bulkfile |-> "ok", request |-> "ok", sqlmap |-> "ok"]
    /\ bulk = << <<"h", ":", "1">> >>
    /\ targets = << <<"h", ":", "1">> >>
    /\ i = 1
    /\ stats = [total |-> 1, successful |-> 0, failed |-> 0]
    /\ successful_targets = <<>>
    /\ temp_files = <<1>>
    /\ temp_file = 1
    /\ temp_path = 1
    /\ j = 0
    /\ process = 1
    /\ result = 0
    /\ analysis = NoAnalysis
    /\ pending = "none"
    /\ disk = {1}
    /\ procs = {}
    /\ summary = <<>>
    /\ resultFile = <<>>
    /\ exitCode = -1
    /\ interrupts = 0
    /\ hist = [started |-> {1},
               fate    |-> << [kind |-> "scan", out |-> 0, rc |-> 0] >>,
               tally   |-> << NoTally >>,
               created |-> <<1>>,
               invoked |-> <<1>>,
               unlinkErrors |-> 0, intAt |-> 0, intPc |-> "", intPre |-> FALSE]
    /\ tpl = [lines |-> <<>>, eol |-> <<>>, trail |-> FALSE]
    /\ request_content = <<>>
    /\ new_host = <<>>
    /\ modified = <<>>

\* analysis = analyze_sqlmap_output(output); return result, analysis
AnalyzeOutput ==
    /\ pc = "analyze"
    /\ analysis' = analyze_sqlmap_output(output)
    /\ pc' = "classify"
    /\ UNCHANGED <<fs, bulk, targets, i, stats, successful_targets, temp_files,
                   temp_file, temp_path, j, process, output, result, pending,
                   disk, procs, summary, resultFile, exitCode, interrupts, hist>>
    /\ UNCHANGED rewriter

NextAnalyze ==
    \/ AnalyzeOutput
    \/ Classify
    \/ AppendSuccess

SpecAnalyze == InitAnalyze /\ [][NextAnalyze]_vars

(***************************************************************************)
(* Vocabulary of the properties                                            *)
(***************************************************************************)
\* the address has no ':' anywhere
NoSeparator(t) == \A p \in 1..Len(t) : t[p] # ":"

\* the classification of each output the executable can print
Classification == [o \in 1..Len(Outputs) |-> analyze_sqlmap_output(Outputs[o])]

\* the output captured for position k carries one of the two signals
Signal(k) ==
    /\ hist.fate[k].out > 0
    /\ \/ Classification[hist.fate[k].out].injection_detected
       \/ Classification[hist.fate[k].out].db_fingerprint

\* a target is being processed
InProgress == pc \in LoopRegion \ {"loop"}

\* the processing of position k ran to its end
Done(k) ==
    /\ k \in hist.started
    /\ \/ k < i
       \/ k = i /\ ~InProgress /\ (hist.intAt = k => hist.intPc = "loop")

\* process_bulk_scan has returned to main
Returned == pc \in {"summary", "write_result", "exit"} \/ (pc = "done" /\ summary # <<>>)

CountedFailedOnce(k) == hist.tally[k] = [s |-> 0, f |-> 1, n |-> 1]
CountedSuccessfulOnce(k) == hist.tally[k] = [s |-> 1, f |-> 0, n |-> 1]

\* number of run_sqlmap calls made for position k
Invocations(k) == Cardinality({n \in 1..Len(hist.invoked) : hist.invoked[n] = k})

\* the counter a finished position must have gone to, from what happened to it
Produced(k) ==
    IF hist.fate[k].kind = "scan" /\ Signal(k) THEN "successful" ELSE "failed"

RECURSIVE ProducedCount(_, _)
ProducedCount(m, c) ==
    IF m = 0 THEN 0
    ELSE ProducedCount(m - 1, c) + (IF Produced(m) = c THEN 1 ELSE 0)

RECURSIVE ProducedList(_)
ProducedList(m) ==
    IF m = 0 THEN <<>>
    ELSE ProducedList(m - 1) \o
         (IF Produced(m) = "successful"
          THEN << [target |-> targets[m],
                   injection_detected |->
                       Classification[hist.fate[m].out].injection_detected,
                   db_type |-> Classification[hist.fate[m].out].db_type,
                   db_version |-> Classification[hist.fate[m].out].db_version] >>
          ELSE <<>>)

(***************************************************************************)
(* C1: an interrupt raised while a target is being processed ends the      *)
(* process with exit code 130.                                             *)
(* Fails: process_bulk_scan catches the interrupt and returns, and main    *)
(* exits with 0 or 1.                                                      *)
(***************************************************************************)
C1_InterruptExits130 ==
    (pc = "done" /\ hist.intAt # 0 /\ hist.intPc # "loop") => exitCode = 130

(***************************************************************************)
(* C2: once process_bulk_scan has finished, no temporary request file of   *)
(* the run exists on disk, whatever path each iteration took.              *)
(* Fails: a file created by NamedTemporaryFile whose write raises, or that *)
(* is interrupted before it is registered, is never deleted.               *)
(***************************************************************************)
C2_NoTempFileRemains ==
    pc \in {"summary", "write_result", "exit", "done"} => disk = {}

(***************************************************************************)
(* C3: a target is counted as successful, and put on the successful-target *)
(* list, only if its captured output has injection_detected or             *)
(* db_fingerprint; a scan that exits with 0 and has neither signal is      *)
(* counted as failed.                                                      *)
(***************************************************************************)
C3_SuccessOnlyOnSignal ==
    /\ \A k \in hist.started :
         hist.tally[k].s > 0 => hist.fate[k].kind = "scan" /\ Signal(k)
    /\ \A k \in hist.started :
         (Done(k) /\ hist.fate[k].kind = "scan" /\ hist.fate[k].rc = 0 /\ ~Signal(k))
            => CountedFailedOnce(k)
    /\ \A n \in 1..Len(successful_targets) :
         \E k \in hist.started :
            /\ targets[k] = successful_targets[n].target
            /\ hist.fate[k].kind = "scan"
            /\ Signal(k)

C3_Witness ==
    /\ pc = "done"
    /\ \E k \in hist.started :
         /\ Done(k) /\ hist.fate[k].kind = "scan" /\ hist.fate[k].rc = 0
         /\ ~Signal(k) /\ CountedFailedOnce(k)
    /\ \E k \in hist.started : CountedSuccessfulOnce(k)

(***************************************************************************)
(* C4: after an interrupt raised while target k is processed, no later     *)
(* target is started: no temporary file is created and run_sqlmap is not   *)
(* called any more.                                                        *)
(***************************************************************************)
C4_NoStartAfterInterrupt ==
    [][hist.intAt # 0 =>
          /\ hist'.started = hist.started
          /\ hist'.created = hist.created
          /\ hist'.invoked = hist.invoked
          /\ i' = i]_vars

C4_Witness ==
    /\ pc = "done"
    /\ hist.intAt # 0
    /\ hist.intPc # "loop"
    /\ hist.intAt < Len(targets)

(***************************************************************************)
(* C5: when the interrupt comes during target k before the outcome of k is *)
(* recorded, successful, failed and the successful-target list are exactly *)
(* what targets 1..k-1 produced, total is the length of the list, and main *)
(* prints that summary and writes those targets to the result file.        *)
(***************************************************************************)
C5_PartialStatsReported ==
    hist.intPre =>
       LET k == hist.intAt
       IN  /\ stats = [total      |-> Len(targets),
                       successful |-> ProducedCount(k - 1, "successful"),
                       failed     |-> ProducedCount(k - 1, "failed")]
           /\ successful_targets = ProducedList(k - 1)
           /\ (pc = "done" /\ interrupts = 1) =>
                 /\ summary = <<Len(targets), ProducedCount(k - 1, "successful"),
                                ProducedCount(k - 1, "failed")>>
                 /\ ProducedList(k - 1) # <<>> =>
                       resultFile = [n \in 1..Len(ProducedList(k - 1)) |->
                                        FormatLine(ProducedList(k - 1)[n])]

C5_Witness ==
    /\ pc = "done"
    /\ hist.intPre
    /\ interrupts = 1
    /\ hist.intAt = 2
    /\ summary = <<2, 1, 0>>
    /\ Len(resultFile) = 1
    /\ resultFile[1].target = targets[1]

(***************************************************************************)
(* C6: the exit code is 0 exactly when every target of the filtered list   *)
(* was counted as successful or the list was empty, and 1 whenever a       *)
(* target was counted as failed.  Stated for the runs that end at          *)
(* sys.exit(0 if stats['failed'] == 0 else 1).                             *)
(* Fails: an interrupted run (see C1) ends there too, with targets that    *)
(* were never counted.                                                     *)
(***************************************************************************)
C6_ExitCodeReflectsOutcomes ==
    (pc = "done" /\ exitCode # 130
        /\ fs.bulkfile = "ok" /\ fs.request = "ok" /\ fs.sqlmap = "ok") =>
       /\ (exitCode = 0) <=>
             \A k \in 1..Len(read_bulk_file(bulk)) :
                 k \in hist.started /\ hist.tally[k].s >= 1
       /\ (\E k \in hist.started : hist.tally[k].f >= 1) => exitCode = 1

(***************************************************************************)
(* C7: a target without ':' is counted as failed, no temporary file is     *)
(* created and run_sqlmap is not called for it, it counts toward total,    *)
(* and handling it changes nothing that the processing of the other        *)
(* targets reads or writes.                                                *)
(***************************************************************************)
C7_MalformedState ==
    /\ hist.started # {} => stats.total = Len(targets)
    /\ \A k \in hist.started :
         NoSeparator(targets[k]) =>
            /\ \A n \in 1..Len(hist.created) : hist.created[n] # k
            /\ Invocations(k) = 0
            /\ Done(k) => CountedFailedOnce(k)

C7_MalformedStep ==
    (pc = "check_format" /\ NoSeparator(targets[i]) /\ interrupts' = interrupts
        /\ pc' # pc) =>
       /\ pc' = "loop"
       /\ stats' = [stats EXCEPT !.failed = @ + 1]
       /\ UNCHANGED <<targets, successful_targets, temp_files, temp_file,
                      temp_path, process, output, result, analysis, disk,
                      procs, resultFile, summary, exitCode>>

C7_MalformedSkipped == [] C7_MalformedState /\ [][C7_MalformedStep]_vars

C7_Witness ==
    /\ pc = "done"
    /\ hist.started = {1, 2}
    /\ stats.total = 2
    /\ NoSeparator(targets[1]) /\ CountedFailedOnce(1)
    /\ ~NoSeparator(targets[2]) /\ Invocations(2) = 1 /\ CountedSuccessfulOnce(2)

(***************************************************************************)
(* C8: without an interrupt every per-target error is handled inside the   *)
(* iteration and the loop goes on: each target changes exactly one of      *)
(* successful and failed, once and by one; the counters never decrease;    *)
(* at return successful + failed = total.                                  *)
(***************************************************************************)
C8_CountedState ==
    interrupts = 0 =>
       /\ pc = "loop" => stats.successful + stats.failed = i
       /\ \A k \in hist.started :
            Done(k) => CountedFailedOnce(k) \/ CountedSuccessfulOnce(k)
       /\ Returned => stats.successful + stats.failed = stats.total

C8_CountedStep ==
    /\ stats'.successful >= stats.successful
    /\ stats'.failed >= stats.failed

C8_EachTargetCountedOnce == [] C8_CountedState /\ [][C8_CountedStep]_vars

C8_Witness ==
    /\ pc = "done"
    /\ interrupts = 0
    /\ exitCode = 1
    /\ hist.started = {1, 2}
    /\ hist.fate[1].kind \in {"rewrite_exc", "create_exc", "write_exc",
                              "launch_exc", "exec_exc"}
    /\ CountedSuccessfulOnce(2)
    /\ stats.successful + stats.failed = 2

(***************************************************************************)
(* C9 as claimed: a scan that exits with a non-zero status or fails to     *)
(* launch is counted as failed, and run_sqlmap is called at most once for  *)
(* the target.                                                             *)
(* Fails: the exit status is not looked at when the output carries a       *)
(* signal.                                                                 *)
(***************************************************************************)
C9_FailedScanCountsFailed ==
    \A k \in hist.started :
       /\ Invocations(k) <= 1
       /\ (Done(k) /\ (\/ hist.fate[k].kind = "launch_exc"
                       \/ hist.fate[k].kind = "scan" /\ hist.fate[k].rc # 0))
             => CountedFailedOnce(k)

(***************************************************************************)
(* C9 amended: a scan that fails to launch, or that exits with a non-zero  *)
(* status and whose output carries neither signal, is counted as failed; a *)
(* scan that exits with a non-zero status and whose output carries a       *)
(* signal is counted as successful; run_sqlmap is called at most once for  *)
(* the target.                                                             *)
(***************************************************************************)
C9_FailedScanAmended ==
    \A k \in hist.started :
       /\ Invocations(k) <= 1
       /\ (Done(k) /\ (\/ hist.fate[k].kind = "launch_exc"
                       \/ /\ hist.fate[k].kind = "scan"
                          /\ hist.fate[k].rc # 0
                          /\ ~Signal(k)))
             => CountedFailedOnce(k)
       /\ (Done(k) /\ hist.fate[k].kind = "scan" /\ hist.fate[k].rc # 0 /\ Signal(k))
             => CountedSuccessfulOnce(k)

C9_Witness ==
    /\ pc = "done"
    /\ \E k \in hist.started :
         Done(k) /\ hist.fate[k].kind = "launch_exc" /\ CountedFailedOnce(k)
    /\ \E k \in hist.started :
         /\ Done(k) /\ hist.fate[k].kind = "scan" /\ hist.fate[k].rc # 0
         /\ Signal(k) /\ CountedSuccessfulOnce(k) /\ Invocations(k) = 1

(***************************************************************************)
(* C10: when the processing of a target begins, the scan of the previous   *)
(* target has ended and its temporary file is deleted; at most one scan    *)
(* runs and at most one temporary file exists at any time; os.unlink never *)
(* raises in either cleanup pass.                                          *)
(* Fails: the file leaked by a failed write (see C2) is still there when   *)
(* the next target begins, and a child whose output could not be read is   *)
(* not waited for.                                                         *)
(***************************************************************************)
C10_OneAtATime ==
    /\ Cardinality(disk) <= 1
    /\ Cardinality(procs) <= 1
    /\ pc = "check_format" => disk = {} /\ procs = {}
    /\ hist.unlinkErrors = 0

(***************************************************************************)
(* C11: targets are started in the order of the target list, and the list  *)
(* of successful targets (and so the lines of the result file) is the      *)
(* subsequence of the target list made of the successful targets, in the   *)
(* same relative order.                                                    *)
(***************************************************************************)
\* the records of the positions up to m whose scan carried a signal, in
\* list order
RecordsUpTo(m) == IF m <= 0 THEN <<>> ELSE ProducedList(m)

C11_OrderState ==
    /\ hist.started = 1..i
    /\ successful_targets \in {RecordsUpTo(i), RecordsUpTo(i - 1)}
    /\ (i >= 1 /\ Done(i)) => successful_targets = RecordsUpTo(i)
    /\ (pc = "exit" /\ successful_targets # <<>>) =>
           resultFile = [n \in 1..Len(successful_targets) |->
                            FormatLine(successful_targets[n])]

C11_OrderStep ==
    /\ i' # i => i' = i + 1 /\ hist'.started = hist.started \cup {i'}
    /\ \A n \in 1..Len(successful_targets) :
          /\ n <= Len(successful_targets')
          /\ successful_targets'[n] = successful_targets[n]

C11_ListOrderKept == [] C11_OrderState /\ [][C11_OrderStep]_vars

\* two different targets were both successful and both are in the file
C11_Witness ==
    /\ pc = "exit"
    /\ Len(successful_targets) = 2
    /\ successful_targets[1].target # successful_targets[2].target
    /\ Len(resultFile) = 2

(***************************************************************************)
(* C12: at the end of every run that reaches the report step, the result   *)
(* file holds exactly one line per target that was successful in this run  *)
(* and nothing else; what the file held before is gone, also when this run *)
(* has no successful target.                                               *)
(* Fails: with no successful target main does not open result.txt, so the  *)
(* lines of an earlier run stay in it.                                     *)
(***************************************************************************)
\* main is past the report step
Reported == pc = "exit" \/ (pc = "done" /\ summary # <<>> /\ exitCode \in {0, 1})

C12_ResultFileExact ==
    Reported => resultFile = [n \in 1..Len(successful_targets) |->
                                 FormatLine(successful_targets[n])]

(***************************************************************************)
(* C13: if the target list file, the template file or the executable path  *)
(* is missing or unreadable, the run ends with exit code 1 before any      *)
(* target is processed: no temporary file is created and the scan runner   *)
(* is never invoked.                                                       *)
(* Fails: validate_args only tests existence.  An executable that exists   *)
(* but cannot be read is launched for every target, and an unreadable      *)
(* template is not noticed when the target list is empty.                  *)
(***************************************************************************)
BadInput == \E f \in {"bulkfile", "request", "sqlmap"} : fs[f] # "ok"

C13_BadInputAborts ==
    BadInput =>
        /\ hist.started = {}
        /\ hist.created = <<>>
        /\ hist.invoked = <<>>
        /\ pc = "done" => exitCode \in {1, 130}

(***************************************************************************)
(* C19: whenever process_bulk_scan returns, after a complete run or after  *)
(* an interrupt raised at any step, the successful counter equals the      *)
(* number of records in the list of successful targets, and every record   *)
(* belongs to a different processed position.                              *)
(* Fails: the counter is incremented before the record is appended; an     *)
(* interrupt raised between the two leaves the counter one ahead.          *)
(***************************************************************************)
C19_CounterMatchesList ==
    Returned =>
        /\ stats.successful = Len(successful_targets)
        /\ \E f \in [1..Len(successful_targets) -> hist.started] :
             /\ \A a, b \in 1..Len(successful_targets) : a # b => f[a] # f[b]
             /\ \A n \in 1..Len(successful_targets) :
                  successful_targets[n].target = targets[f[n]]

(***************************************************************************)
(* Vocabulary of the properties of replace_host_in_request                 *)
(***************************************************************************)
\* the line begins with the label 'Host:' in any letter case
IsHostLine(l) ==
    /\ Len(l) >= 5
    /\ <<lower(l[1]), lower(l[2]), lower(l[3]), lower(l[4]), l[5]>>
         = <<"h", "o", "s", "t", ":">>

\* what follows the label, without the surrounding whitespace
HostValue(l) == strip(SubSeq(l, 6, Len(l)))

\* the Host: lines of a text, by line number
HostLines(t) == {k \in 1..Len(split(t)) : IsHostLine(split(t)[k])}

HasPlaceholder(t) == Contains(t, Placeholder)

\* replace_host_in_request has returned
Rewritten == pc = "rewritten"

(***************************************************************************)
(* C14: for a template without the placeholder that has a Host: line       *)
(* (label in any letter case) and any target T, also a T equal to the      *)
(* value the Host: line already has, the returned text has a Host: line    *)
(* with value T and no other Host: line; the number of Host: lines does    *)
(* not grow.                                                               *)
(* Fails: the function takes "the text did not change" for "no Host: line  *)
(* was found", so a T equal to the present value gets a second Host: line. *)
(***************************************************************************)
C14_HostLineRewritten ==
    (Rewritten /\ ~HasPlaceholder(request_content) /\ HostLines(request_content) # {}) =>
        /\ \E k \in HostLines(modified) : HostValue(split(modified)[k]) = new_host
        /\ \A k \in HostLines(modified) : HostValue(split(modified)[k]) = new_host
        /\ Cardinality(HostLines(modified)) <= Cardinality(HostLines(request_content))

(***************************************************************************)
(* C15: for a template with neither a Host: line nor the placeholder, the  *)
(* function inserts exactly one line 'Host: T' after the first line:       *)
(* before the first later line that contains a colon or the first blank    *)
(* line, whichever comes first, or as the second line if there is none;    *)
(* the first line and all other lines are unchanged and keep their order.  *)
(* As stated it fails: a later line with a colon that begins with 'HTTP/'  *)
(* is passed over.  C15_HostInsertedAmended states the place the code      *)
(* takes.                                                                  *)
(***************************************************************************)
Blank(l) == \A p \in 1..Len(l) : IsSpace(l[p])

\* the line has a colon
Colon(l) == \E p \in 1..Len(l) : l[p] = ":"

\* the line, without leading whitespace, begins with 'HTTP/'
BeginsHttp(l) ==
    \E p \in 1..Len(l) :
        /\ \A q \in 1..(p - 1) : IsSpace(l[q])
        /\ StartsWithAt(l, p, HttpPrefix)

\* the first line number from 2 on that is in S, or 2 if there is none
FirstFrom2(S) ==
    IF \E k \in S : k >= 2
    THEN CHOOSE k \in S : k >= 2 /\ \A m \in S : m >= 2 => k <= m
    ELSE 2

\* the returned text is the template with the line 'Host: T' put at line
\* number P and nothing else changed
InsertedAt(P) ==
    LET L == split(request_content)
        O == split(modified)
    IN  /\ Len(O) = Len(L) + 1
        /\ O[P] = HostPrefix \o new_host
        /\ \A k \in 1..Len(L) : IF k < P THEN O[k] = L[k] ELSE O[k + 1] = L[k]
        /\ HostLines(modified) = {P}

NoHostNoPlaceholder ==
    /\ Rewritten
    /\ ~HasPlaceholder(request_content)
    /\ HostLines(request_content) = {}

\* the place as the claim states it
C15_HostInserted ==
    NoHostNoPlaceholder =>
        LET L == split(request_content)
        IN  InsertedAt(FirstFrom2({k \in 1..Len(L) : Colon(L[k]) \/ Blank(L[k])}))

\* the place the code takes: a line with a colon that begins with 'HTTP/'
\* does not count
C15_HostInsertedAmended ==
    NoHostNoPlaceholder =>
        LET L == split(request_content)
        IN  InsertedAt(FirstFrom2({k \in 1..Len(L) :
                           \/ Colon(L[k]) /\ ~BeginsHttp(L[k])
                           \/ Blank(L[k])}))

\* the header went behind a line with a colon that begins with 'HTTP/'
C15_Witness ==
    /\ NoHostNoPlaceholder
    /\ Len(split(request_content)) = 3
    /\ BeginsHttp(split(request_content)[2]) /\ Colon(split(request_content)[2])
    /\ split(modified)[3] = HostPrefix \o new_host

(***************************************************************************)
(* C16: for a template that contains the placeholder {{Hostname}}, the     *)
(* function replaces every occurrence of the placeholder by the target,    *)
(* verbatim, and changes nothing else: a Host: line of the template is     *)
(* left as it is and no Host: line is inserted.                            *)
(***************************************************************************)
\* where the placeholder occurs in the text
Occurrences(t) == {p \in 1..Len(t) : StartsWithAt(t, p, Placeholder)}

C16_OnlyPlaceholderReplaced ==
    (Rewritten /\ HasPlaceholder(request_content)) =>
        LET occ == Occurrences(request_content)
            grow == Len(new_host) - Len(Placeholder)
            \* how far the character at p of the template has moved
            Shift(p) == Cardinality({o \in occ : o < p}) * grow
            \* p lies inside an occurrence of the placeholder
            Covered(p) == \E o \in occ : o <= p /\ p < o + Len(Placeholder)
            L == split(request_content)
            O == split(modified)
        IN  /\ Len(modified) = Len(request_content) + Cardinality(occ) * grow
            /\ \A p \in 1..Len(request_content) :
                 /\ p \in occ => StartsWithAt(modified, p + Shift(p), new_host)
                 /\ ~Covered(p) => modified[p + Shift(p)] = request_content[p]
            /\ Len(O) = Len(L)
            /\ \A k \in 1..Len(L) : ~HasPlaceholder(L[k]) => O[k] = L[k]

\* a template with the placeholder twice on one line and a Host: line of
\* its own was rewritten
C16_Witness ==
    /\ Rewritten
    /\ Cardinality(Occurrences(request_content)) >= 2
    /\ \E k \in HostLines(request_content) :
         /\ ~HasPlaceholder(split(request_content)[k])
         /\ split(modified)[k] = split(request_content)[k]
    /\ modified # request_content

(***************************************************************************)
(* C17: the function keeps the line-terminator style of the template.  In  *)
(* a template whose lines end in CRLF every line of the result, the        *)
(* rewritten or inserted Host: line included, ends in CRLF; in a template  *)
(* that uses LF the result uses LF only.                                   *)
(* Fails for CRLF: '.' in the pattern takes the carriage return of the     *)
(* Host: line, which the replacement drops, and the inserted line is       *)
(* joined with a bare '\n'.                                                *)
(***************************************************************************)
\* every newline of the text follows a carriage return
AllCRLF(t) == \A p \in 1..Len(t) : t[p] = "\n" => (p > 1 /\ t[p - 1] = "\r")

\* the text has no carriage return
NoCR(t) == \A p \in 1..Len(t) : t[p] # "\r"

\* the text has a line terminator
HasNewline(t) == \E p \in 1..Len(t) : t[p] = "\n"

C17_TerminatorsKept ==
    (Rewritten /\ HasNewline(request_content)) =>
        /\ AllCRLF(request_content) => AllCRLF(modified)
        /\ NoCR(request_content) => NoCR(modified)

(***************************************************************************)
(* C18: when the output matches the patterns of more than one database     *)
(* type, the reported type is the first one in the order mysql,            *)
(* postgresql, mssql, oracle, sqlite, access, wherever each match stands   *)
(* in the text; the reported version is the one extracted by the first of  *)
(* the three version phrasings that matches, or unset if none matches.     *)
(***************************************************************************)
DbOrder == <<"mysql", "postgresql", "mssql", "oracle", "sqlite", "access">>

\* the patterns found somewhere in the output
PatternsFound(out) == UNION {{m.p : m \in LineMatches(out[n])} : n \in 1..Len(out)}

\* ranks in DbOrder of the types one of whose patterns is found
TypesFound(out) ==
    {t \in 1..Len(DbOrder) :
        \E d \in 1..Len(db_patterns) :
            /\ db_patterns[d].db_type = DbOrder[t]
            /\ \E q \in 1..Len(db_patterns[d].patterns) :
                   db_patterns[d].patterns[q] \in PatternsFound(out)}

\* the version phrasings found, by rank
PhrasingsFound(out) ==
    {v \in 1..Len(version_patterns) : version_patterns[v] \in PatternsFound(out)}

Lowest(S) == CHOOSE x \in S : \A y \in S : x <= y

\* analyze_sqlmap_output has returned
Analyzed == pc \in {"classify", "append_success", "finally_inner"}

C18_FirstTypeWins ==
    (Analyzed /\ TypesFound(output) # {}) =>
        LET T == TypesFound(output)
            V == PhrasingsFound(output)
        IN  /\ analysis.db_type = DbOrder[Lowest(T)]
            /\ V = {} => analysis.db_version = None
            /\ V # {} =>
                 \E n \in 1..Len(output) :
                     /\ [p |-> version_patterns[Lowest(V)], g |-> analysis.db_version]
                            \in LineMatches(output[n])
                     /\ \A k \in 1..(n - 1) :
                            \A m \in LineMatches(output[k]) :
                                m.p # version_patterns[Lowest(V)]

\* the text names a later type first, and gives a version
C18_Witness ==
    /\ Analyzed
    /\ Cardinality(TypesFound(output)) >= 2
    /\ TypesFound(<<output[1]>>) # {}
    /\ analysis.db_type # DbOrder[Lowest(TypesFound(<<output[1]>>))]
    /\ analysis.db_version # None

(***************************************************************************)
(* C20: every record analyze_sqlmap_output returns is consistent: db_type  *)
(* is set exactly when db_fingerprint is true, and db_version is set only  *)
(* when db_fingerprint is true.  So every record in the list of successful *)
(* targets has injection_detected true or a db_type that is set.           *)
(***************************************************************************)
C20_RecordConsistent ==
    /\ Analyzed =>
         /\ analysis.db_type # None <=> analysis.db_fingerprint
         /\ analysis.db_version # None => analysis.db_fingerprint
    /\ \A n \in 1..Len(successful_targets) :
         \/ successful_targets[n].injection_detected
         \/ successful_targets[n].db_type # None

\* a record with a type and a version, and no injection, was put in the list
C20_Witness ==
    /\ pc = "finally_inner"
    /\ Len(successful_targets) = 1
    /\ ~successful_targets[1].injection_detected
    /\ successful_targets[1].db_type # None
    /\ successful_targets[1].db_version # None
====
